---- MODULE Spec2Model ----
(***************************************************************************)
(* Model of dance_choreograph.py: the DanceChoreographer (timed action     *)
(* sequencer) and the DanceCommandPublisher node whose timer_callback       *)
(* gates on subscribers, folds due actions into the last_twist /            *)
(* last_lightring latches and republishes them on every tick.               *)
(*                                                                         *)
(* Clock readings (rclpy Time) are integers counting units of               *)
(* 1/UnitsPerSecond second; script offsets are whole seconds.  The          *)
(* conversion "nanoseconds / float(1e9)" is kept as a comparison of a       *)
(* unit count against seconds * UnitsPerSecond.                             *)
(***************************************************************************)
EXTENDS Integers, Sequences, FiniteSets, TLC

\* ------------------------------------------------------------- bounds
MaxLen == 2            \* longest dance_sequence
MaxOffset == 1         \* largest offset (seconds) in a dance_sequence
MaxCallTime == 2       \* largest time handed to the choreographer directly
MaxTime == 6           \* largest clock reading seen by the node
MaxStep == 2           \* largest clock advance between two timer callbacks
MaxSubs == 1           \* largest subscription count reported by a publisher
UnitsPerSecond == 1    \* clock units per second
MaxStarts == 2         \* start_dance calls counted (the count saturates here)

\* ---------------------------------------------------- program constants
WaitPrintoutSeconds == 5    \* "> 5.0" in timer_callback
NumLeds == 6                \* LEDs on the lightring

VARIABLES
    dance_sequence,                 \* DanceChoreographer.dance_sequence
    start_time,                     \* DanceChoreographer.start_time (None until start_dance)
    action_index,                   \* DanceChoreographer.action_index
    ready,                          \* DanceCommandPublisher.ready
    last_twist,                     \* DanceCommandPublisher.last_twist
    last_lightring,                 \* DanceCommandPublisher.last_lightring
    last_wait_subscriber_printout,  \* DanceCommandPublisher.last_wait_subscriber_printout
    clock,                          \* last reading of get_clock().now()
    calls,                          \* history: choreographer calls of this performance
    tick,                           \* history: what the last timer_callback did
    prev_published,                 \* history: what the ready tick before it published
    finished_folded                 \* history: FinishedDance folded, no Move/Lights since

vars == << dance_sequence, start_time, action_index, ready, last_twist,
           last_lightring, last_wait_subscriber_printout, clock, calls, tick,
           prev_published, finished_folded >>

\* Python's None and a present value
None == << >>
Some(v) == << v >>
ValueOf(opt) == opt[1]

\* ---------------------------------------------------------- value types
LedColor(r, g, b) == [red |-> r, green |-> g, blue |-> b]

ColorPalette ==
    [red    |-> LedColor(255, 0, 0),
     green  |-> LedColor(0, 255, 0),
     blue   |-> LedColor(0, 0, 255),
     yellow |-> LedColor(255, 255, 0),
     pink   |-> LedColor(255, 0, 255),
     cyan   |-> LedColor(0, 255, 255),
     purple |-> LedColor(127, 0, 255),
     white  |-> LedColor(255, 255, 255),
     grey   |-> LedColor(189, 189, 189)]

\* math.radians, in milliradians
Radians(deg) == (deg * 31416) \div 1800

Move(x_m_s, theta_degrees_second) ==
    [kind |-> "Move", x |-> x_m_s, theta |-> Radians(theta_degrees_second)]

Lights(led_colors) == [kind |-> "Lights", led_colors |-> led_colors]

FinishedDance == [kind |-> "FinishedDance"]

\* geometry_msgs Twist(): the two fields the node sets, zero by default
Twist == [linear_x |-> 0, angular_z |-> 0]

\* irobot_create_msgs LightringLeds(): zero stamp, six black LEDs, no override
LightringLeds ==
    [stamp |-> 0, override_system |-> FALSE,
     leds |-> [i \in 1..NumLeds |-> LedColor(0, 0, 0)]]

\* ------------------------------------------------------ scripts (inputs)
AllRed == [i \in 1..NumLeds |-> ColorPalette.red]

Actions == { Move(1, 90), Lights(AllRed), FinishedDance }

\* offsets the spec allows (>= 0), and the offsets a first entry may carry:
\* the constructor checks nothing, so a negative one is accepted as well
Offsets == 0 .. MaxOffset
FirstOffsets == -1 .. MaxOffset

Scripts ==
    UNION { { s \in [1..n -> FirstOffsets \X Actions] :
                \A i \in 2..n : s[i][1] \in Offsets } : n \in 0..MaxLen }

NonDecreasing(seq) ==
    \A i \in 1..Len(seq) : \A j \in i..Len(seq) : seq[i][1] <= seq[j][1]

\* the scripts of the documented shape: offsets >= 0 and non-decreasing
ValidScripts ==
    { s \in Scripts : NonDecreasing(s) /\ \A i \in 1..Len(s) : s[i][1] >= 0 }

\* ------------------------------------------------- DanceChoreographer
\* mutant: the constructor also initialises start_time (to time zero)
DanceChoreographerWithStartTime(seq) ==
    [dance_sequence |-> seq, action_index |-> 0, start_time |-> Some(0)]

\* __init__: the fields set at construction (start_time is not among them)
DanceChoreographer(seq) ==
    [dance_sequence |-> seq, action_index |-> 0, start_time |-> None]

\* mutant: start_dance records the time and leaves the cursor where it is
start_dance_keeps_cursor(time) ==
    [start_time |-> Some(time), action_index |-> action_index]

\* start_dance: the fields it assigns
start_dance(time) == [start_time |-> Some(time), action_index |-> 0]

\* mutant: "greater than" where the code has "greater or equal"
ReachedOffsetStrict(time_into_dance, offset_seconds) ==
    time_into_dance > offset_seconds * UnitsPerSecond

\* time_into_dance.nanoseconds / float(1e9) >= offset, on clock units
ReachedOffset(time_into_dance, offset_seconds) ==
    time_into_dance >= offset_seconds * UnitsPerSecond

\* mutant: "if" where the code has "while": at most one action per call
WhileDueOnce(seq, index, time_into_dance, out) ==
    IF index < Len(seq) /\ time_into_dance >= seq[index + 1][1] * UnitsPerSecond
    THEN [action_index |-> index + 1,
          actions |-> Append(out.actions, seq[index + 1][2]),
          taken   |-> Append(out.taken, index)]
    ELSE [action_index |-> index, actions |-> out.actions, taken |-> out.taken]

\* mutant: the loop bound is len(dance_sequence) - 1: the last entry is never due
RECURSIVE WhileDueShort(_, _, _, _)
WhileDueShort(seq, index, time_into_dance, out) ==
    IF index < Len(seq) - 1 /\ time_into_dance >= seq[index + 1][1] * UnitsPerSecond
    THEN WhileDueShort(seq, index + 1, time_into_dance,
                       [actions |-> Append(out.actions, seq[index + 1][2]),
                        taken   |-> Append(out.taken, index)])
    ELSE [action_index |-> index, actions |-> out.actions, taken |-> out.taken]

\* the while loop of get_next_actions; taken lists the indices it appended
RECURSIVE WhileDue(_, _, _, _)
WhileDue(seq, index, time_into_dance, out) ==
    IF index < Len(seq) /\ ReachedOffset(time_into_dance, seq[index + 1][1])
    THEN WhileDue(seq, index + 1, time_into_dance,
                  [actions |-> Append(out.actions, seq[index + 1][2]),
                   taken   |-> Append(out.taken, index)])
    ELSE [action_index |-> index, actions |-> out.actions, taken |-> out.taken]

\* mutant: every call scans the script from its first entry
get_next_actions_rescan(seq, start, index, time) ==
    WhileDue(seq, 0, time - ValueOf(start), [actions |-> << >>, taken |-> << >>])

\* mutant: the loop runs on a local copy of the cursor that is never stored
get_next_actions_no_writeback(seq, start, index, time) ==
    [WhileDue(seq, index, time - ValueOf(start), [actions |-> << >>, taken |-> << >>])
        EXCEPT !.action_index = index]

\* mutant: offsets are compared with the clock reading, not the time elapsed
\* since start_time
get_next_actions_abs(seq, start, index, time) ==
    WhileDue(seq, index, time, [actions |-> << >>, taken |-> << >>])

\* get_next_actions on a started choreographer: the list returned and the
\* cursor it leaves
get_next_actions(seq, start, index, time) ==
    WhileDue(seq, index, time - ValueOf(start), [actions |-> << >>, taken |-> << >>])

\* --------------------------------------------- history of the calls
\* last: the latest call; prev: what the call before it was, when it was
\* made and how many actions it returned; returned_count[i]: how many times
\* entry i was returned in this performance; emitted: everything returned in
\* this performance, in order; increasing: the query times of this
\* performance started at or after start_time and went strictly up;
\* nondecreasing: they never went down; starts: how many times start_dance
\* was called (saturating at MaxStarts); rewound: the start_dance that began
\* this performance found the cursor past the first entry.
NoCall ==
    [op |-> "none", outcome |-> "ok", time |-> 0, actions |-> << >>,
     taken |-> << >>, index_before |-> 0]

Brief(call) == [op |-> call.op, time |-> call.time, returned |-> Len(call.actions)]

NoCalls(seq) ==
    [last |-> NoCall, prev |-> Brief(NoCall),
     returned_count |-> [i \in 1..Len(seq) |-> 0],
     emitted |-> << >>, increasing |-> TRUE, nondecreasing |-> TRUE,
     starts |-> 0, rewound |-> FALSE]

\* the history after start_dance(time): a new performance begins
AfterStart(h, seq, index, time) ==
    [last |-> [op |-> "start_dance", outcome |-> "ok", time |-> time,
               actions |-> << >>, taken |-> << >>, index_before |-> index],
     prev |-> Brief(h.last),
     returned_count |-> [i \in 1..Len(seq) |-> 0],
     emitted |-> << >>, increasing |-> TRUE, nondecreasing |-> TRUE,
     starts |-> IF h.starts < MaxStarts THEN h.starts + 1 ELSE h.starts,
     rewound |-> index > 0]

\* the history after get_next_actions(time) returned r
AfterGet(h, index, time, r) ==
    [last |-> [op |-> "get_next_actions", outcome |-> "ok", time |-> time,
               actions |-> r.actions, taken |-> r.taken, index_before |-> index],
     prev |-> Brief(h.last),
     returned_count |->
        [i \in DOMAIN h.returned_count |->
            h.returned_count[i]
              + Cardinality({k \in 1..Len(r.taken) : r.taken[k] = i - 1})],
     emitted |-> h.emitted \o r.actions,
     increasing |-> /\ h.increasing
                    /\ IF h.last.op = "start_dance" THEN time >= h.last.time
                                                    ELSE time > h.last.time,
     nondecreasing |-> h.nondecreasing /\ time >= h.last.time,
     starts |-> h.starts, rewound |-> h.rewound]

\* the history after get_next_actions(time) raised (no start_time attribute)
AfterRaise(h, index, time) ==
    [h EXCEPT !.last = [op |-> "get_next_actions", outcome |-> "AttributeError",
                        time |-> time, actions |-> << >>, taken |-> << >>,
                        index_before |-> index],
              !.prev = Brief(h.last)]

\* ------------------------------------------------ DanceCommandPublisher
\* attempted: the publish calls made, in order; failed: the publisher whose
\* publish raised ("none" when none did); raised: an exception left the
\* callback.
NoTick ==
    [kind |-> "none", vel_count |-> None, lights_count |-> None,
     vel_published |-> << >>, lights_published |-> << >>, log |-> << >>,
     attempted |-> << >>, failed |-> "none", raised |-> FALSE]

\* mutant: both channels must have a subscriber
SubscribersConnectedBoth(vel_count, lights_count) ==
    vel_count > 0 /\ lights_count > 0

\* get_subscription_count() > 0 on cmd_vel and >= 0 on cmd_lightring
SubscribersConnected(vel_count, lights_count) ==
    vel_count > 0 /\ lights_count >= 0

\* mutant: ">= 5.0" where the code has "> 5.0"
PrintoutDueInclusive(last_printout, current_time) ==
    \/ last_printout = None
    \/ current_time - ValueOf(last_printout) >= WaitPrintoutSeconds * UnitsPerSecond

\* (current_time - last_wait_subscriber_printout).nanoseconds / float(1e9) > 5.0
PrintoutDue(last_printout, current_time) ==
    \/ last_printout = None
    \/ current_time - ValueOf(last_printout) > WaitPrintoutSeconds * UnitsPerSecond

\* mutant: the connected branch starts the dance but never sets self.ready
GateForgetsReady(is_ready, start, index, last_printout, current_time, vel_count, lights_count) ==
    IF is_ready
    THEN [ready |-> is_ready, start_time |-> start, action_index |-> index,
          last_wait_subscriber_printout |-> last_printout,
          log |-> << >>, started |-> FALSE, returns |-> FALSE]
    ELSE IF vel_count > 0 /\ lights_count >= 0
    THEN [ready |-> is_ready,
          start_time |-> start_dance(current_time).start_time,
          action_index |-> start_dance(current_time).action_index,
          last_wait_subscriber_printout |-> last_printout,
          log |-> << "start" >>, started |-> TRUE, returns |-> FALSE]
    ELSE [ready |-> is_ready, start_time |-> start, action_index |-> index,
          last_wait_subscriber_printout |-> Some(current_time),
          log |-> << "waiting" >>, started |-> FALSE, returns |-> TRUE]

\* mutant: the subscriber check is made on every tick, and a ready node whose
\* subscribers are gone goes back to waiting
GateTracksSubscribers(is_ready, start, index, last_printout, current_time, vel_count, lights_count) ==
    IF is_ready /\ vel_count > 0 /\ lights_count >= 0
    THEN [ready |-> TRUE, start_time |-> start, action_index |-> index,
          last_wait_subscriber_printout |-> last_printout,
          log |-> << >>, started |-> FALSE, returns |-> FALSE]
    ELSE IF vel_count > 0 /\ lights_count >= 0
    THEN [ready |-> TRUE,
          start_time |-> start_dance(current_time).start_time,
          action_index |-> start_dance(current_time).action_index,
          last_wait_subscriber_printout |-> last_printout,
          log |-> << "start" >>, started |-> TRUE, returns |-> FALSE]
    ELSE [ready |-> FALSE, start_time |-> start, action_index |-> index,
          last_wait_subscriber_printout |-> Some(current_time),
          log |-> << "waiting" >>, started |-> FALSE, returns |-> TRUE]

\* The "if not self.ready" block.  returns says whether the callback returns
\* from inside the block; the other fields are the values it leaves.
Gate(is_ready, start, index, last_printout, current_time, vel_count, lights_count) ==
    IF is_ready
    THEN [ready |-> is_ready, start_time |-> start, action_index |-> index,
          last_wait_subscriber_printout |-> last_printout,
          log |-> << >>, started |-> FALSE, returns |-> FALSE]
    ELSE IF SubscribersConnected(vel_count, lights_count)
    THEN [ready |-> TRUE,
          start_time |-> start_dance(current_time).start_time,
          action_index |-> start_dance(current_time).action_index,
          last_wait_subscriber_printout |-> last_printout,
          log |-> << "start" >>, started |-> TRUE, returns |-> FALSE]
    ELSE IF PrintoutDue(last_printout, current_time)
    THEN [ready |-> is_ready, start_time |-> start, action_index |-> index,
          last_wait_subscriber_printout |-> Some(current_time),
          log |-> << "waiting" >>, started |-> FALSE, returns |-> TRUE]
    ELSE [ready |-> is_ready, start_time |-> start, action_index |-> index,
          last_wait_subscriber_printout |-> last_printout,
          log |-> << >>, started |-> FALSE, returns |-> TRUE]

\* mutant: the FinishedDance branch resets the twist and leaves the lightring
FoldActionKeepsLights(st, next_action) ==
    IF next_action.kind = "Move"
    THEN LET twist == [Twist EXCEPT !.linear_x = next_action.x,
                                    !.angular_z = next_action.theta]
         IN  [st EXCEPT !.twist = twist, !.last_twist = twist,
                        !.log = Append(st.log, "move"), !.finished = FALSE]
    ELSE IF next_action.kind = "Lights"
    THEN LET lightring == [LightringLeds EXCEPT !.override_system = TRUE,
                                                !.leds = next_action.led_colors]
         IN  [st EXCEPT !.lightring = lightring, !.last_lightring = lightring,
                        !.aliased = TRUE,
                        !.log = Append(st.log, "lights"), !.finished = FALSE]
    ELSE LET twist == [Twist EXCEPT !.linear_x = 0, !.angular_z = 0]
         IN  [st EXCEPT !.twist = twist, !.last_twist = twist,
                        !.log = Append(st.log, "finished"), !.finished = TRUE]

\* mutant: the Move branch builds the twist and never stores it in last_twist
FoldActionForgetsLatch(st, next_action) ==
    IF next_action.kind = "Move"
    THEN LET twist == [Twist EXCEPT !.linear_x = next_action.x,
                                    !.angular_z = next_action.theta]
         IN  [st EXCEPT !.twist = twist,
                        !.log = Append(st.log, "move"), !.finished = FALSE]
    ELSE IF next_action.kind = "Lights"
    THEN LET lightring == [LightringLeds EXCEPT !.override_system = TRUE,
                                                !.leds = next_action.led_colors]
         IN  [st EXCEPT !.lightring = lightring, !.last_lightring = lightring,
                        !.aliased = TRUE,
                        !.log = Append(st.log, "lights"), !.finished = FALSE]
    ELSE LET twist == [Twist EXCEPT !.linear_x = 0, !.angular_z = 0]
             lightring == [LightringLeds EXCEPT !.override_system = FALSE]
         IN  [st EXCEPT !.twist = twist, !.last_twist = twist,
                        !.lightring = lightring, !.last_lightring = lightring,
                        !.aliased = TRUE,
                        !.log = Append(st.log, "finished"), !.finished = TRUE]

\* mutant: the Move branch also puts a fresh LightringLeds in the light latch
FoldActionMoveResetsLights(st, next_action) ==
    IF next_action.kind = "Move"
    THEN LET twist == [Twist EXCEPT !.linear_x = next_action.x,
                                    !.angular_z = next_action.theta]
             lightring == [LightringLeds EXCEPT !.override_system = FALSE]
         IN  [st EXCEPT !.twist = twist, !.last_twist = twist,
                        !.lightring = lightring, !.last_lightring = lightring,
                        !.aliased = TRUE,
                        !.log = Append(st.log, "move"), !.finished = FALSE]
    ELSE IF next_action.kind = "Lights"
    THEN LET lightring == [LightringLeds EXCEPT !.override_system = TRUE,
                                                !.leds = next_action.led_colors]
         IN  [st EXCEPT !.lightring = lightring, !.last_lightring = lightring,
                        !.aliased = TRUE,
                        !.log = Append(st.log, "lights"), !.finished = FALSE]
    ELSE LET twist == [Twist EXCEPT !.linear_x = 0, !.angular_z = 0]
             lightring == [LightringLeds EXCEPT !.override_system = FALSE]
         IN  [st EXCEPT !.twist = twist, !.last_twist = twist,
                        !.lightring = lightring, !.last_lightring = lightring,
                        !.aliased = TRUE,
                        !.log = Append(st.log, "finished"), !.finished = TRUE]

\* One pass of the "for next_action in next_actions" body.  st carries the
\* locals twist and lightring, the fields last_twist and last_lightring,
\* whether lightring is the very object last_lightring refers to, the events
\* logged, and whether a FinishedDance stands as the last action folded.
FoldAction(st, next_action) ==
    IF next_action.kind = "Move"
    THEN LET twist == [Twist EXCEPT !.linear_x = next_action.x,
                                    !.angular_z = next_action.theta]
         IN  [st EXCEPT !.twist = twist, !.last_twist = twist,
                        !.log = Append(st.log, "move"),
                        !.finished = FALSE]
    ELSE IF next_action.kind = "Lights"
    THEN LET lightring == [LightringLeds EXCEPT !.override_system = TRUE,
                                                !.leds = next_action.led_colors]
         IN  [st EXCEPT !.lightring = lightring, !.last_lightring = lightring,
                        !.aliased = TRUE,
                        !.log = Append(st.log, "lights"),
                        !.finished = FALSE]
    ELSE LET twist == [Twist EXCEPT !.linear_x = 0, !.angular_z = 0]
             lightring == [LightringLeds EXCEPT !.override_system = FALSE]
         IN  [st EXCEPT !.twist = twist, !.last_twist = twist,
                        !.lightring = lightring, !.last_lightring = lightring,
                        !.aliased = TRUE,
                        !.log = Append(st.log, "finished"),
                        !.finished = TRUE]

\* mutant: only the first of the returned actions is folded
FoldFirstOnly(st, next_actions) ==
    IF next_actions = << >> THEN st
    ELSE FoldAction(st, Head(next_actions))

RECURSIVE Fold(_, _)
Fold(st, next_actions) ==
    IF next_actions = << >> THEN st
    ELSE Fold(FoldAction(st, Head(next_actions)), Tail(next_actions))

\* lightring.header.stamp = current_time.to_msg(): it stamps the object the
\* local names, which is last_lightring's object when the two are aliased
Stamp(st, current_time) ==
    LET stamped == [st.lightring EXCEPT !.stamp = current_time]
    IN  [st EXCEPT !.lightring = stamped,
                   !.last_lightring = IF st.aliased THEN stamped
                                                    ELSE st.last_lightring]

\* mutant: the locals start from fresh messages, not from the latches
RunFromDefaults(seq, start, index, twist0, lightring0, finished0, log0, current_time) ==
    LET r  == get_next_actions(seq, start, index, current_time)
        st == Stamp(Fold([twist |-> Twist, lightring |-> LightringLeds,
                          last_twist |-> twist0, last_lightring |-> lightring0,
                          aliased |-> FALSE, log |-> log0,
                          finished |-> finished0],
                         r.actions),
                    current_time)
    IN  [result |-> r,
         last_twist |-> st.last_twist,
         last_lightring |-> st.last_lightring,
         vel_published |-> << st.twist >>,
         lights_published |-> << st.lightring >>,
         log |-> st.log,
         finished |-> st.finished]

\* Lines 139-167: query the choreographer, fold, stamp, publish.
Run(seq, start, index, twist0, lightring0, finished0, log0, current_time) ==
    LET r  == get_next_actions(seq, start, index, current_time)
        st == Stamp(Fold([twist |-> twist0, lightring |-> lightring0,
                          last_twist |-> twist0, last_lightring |-> lightring0,
                          aliased |-> TRUE, log |-> log0,
                          finished |-> finished0],
                         r.actions),
                    current_time)
    IN  [result |-> r,
         last_twist |-> st.last_twist,
         last_lightring |-> st.last_lightring,
         vel_published |-> << st.twist >>,
         lights_published |-> << st.lightring >>,
         log |-> st.log,
         finished |-> st.finished]

\* Lines 166-167: vel_publisher.publish(twist), then
\* lights_publisher.publish(lightring), with nothing around them to catch an
\* exception: when the publish of `failing` raises, the statements after it
\* are not executed and the exception leaves timer_callback.
Publish(twist_msgs, lightring_msgs, failing) ==
    IF failing = "vel"
    THEN [vel_published |-> << >>, lights_published |-> << >>,
          attempted |-> << "vel" >>, failed |-> "vel", raised |-> TRUE]
    ELSE IF failing = "lights"
    THEN [vel_published |-> twist_msgs, lights_published |-> << >>,
          attempted |-> << "vel", "lights" >>, failed |-> "lights", raised |-> TRUE]
    ELSE [vel_published |-> twist_msgs, lights_published |-> lightring_msgs,
          attempted |-> << "vel", "lights" >>, failed |-> "none", raised |-> FALSE]

\* the state after DanceChoreographer(seq) and DanceCommandPublisher(...)
Constructed(seq) ==
    /\ dance_sequence = DanceChoreographer(seq).dance_sequence
    /\ start_time = DanceChoreographer(seq).start_time
    /\ action_index = DanceChoreographer(seq).action_index
    /\ ready = FALSE
    /\ last_twist = Twist
    /\ last_lightring = LightringLeds
    /\ last_wait_subscriber_printout = None
    /\ clock = 0
    /\ calls = NoCalls(seq)
    /\ tick = NoTick
    /\ prev_published = None
    /\ finished_folded = FALSE

\* the choreographer on its own takes any list: nothing is validated
InitSeq == \E seq \in Scripts : Constructed(seq)

\* the node is run with a script of the documented shape
Init == \E seq \in ValidScripts : Constructed(seq)

node_vars == << ready, last_twist, last_lightring,
                last_wait_subscriber_printout, clock, tick, prev_published,
                finished_folded >>

\* ------------------------------- the choreographer driven on its own
StartDance(time) ==
    /\ start_time' = start_dance(time).start_time
    /\ action_index' = start_dance(time).action_index
    /\ calls' = AfterStart(calls, dance_sequence, action_index, time)
    /\ UNCHANGED << dance_sequence, node_vars >>

GetNextActions(time) ==
    /\ start_time # None
    /\ LET r == get_next_actions(dance_sequence, start_time, action_index, time)
       IN  /\ action_index' = r.action_index
           /\ calls' = AfterGet(calls, action_index, time, r)
    /\ UNCHANGED << dance_sequence, start_time, node_vars >>

\* start_time is read before anything is assigned: the call raises
GetNextActionsUnstarted(time) ==
    /\ start_time = None
    /\ calls' = AfterRaise(calls, action_index, time)
    /\ UNCHANGED << dance_sequence, start_time, action_index, node_vars >>

CallTimes == 0 .. MaxCallTime

NextSeq ==
    \/ \E time \in CallTimes : StartDance(time)
    \/ \E time \in CallTimes : GetNextActions(time)
    \/ \E time \in CallTimes : GetNextActionsUnstarted(time)

SpecSeq == InitSeq /\ [][NextSeq]_vars

\* ------------------------------------------- the node driven by its timer
\* timer_callback, with the clock reading and the two subscription counts
\* it obtains, and which publish call (if any) raises.  The counts are read
\* only while not ready.
TimerCallbackPublishing(current_time, vel_count, lights_count, failing) ==
    LET g == Gate(ready, start_time, action_index,
                  last_wait_subscriber_printout, current_time,
                  vel_count, lights_count)
        h == IF g.started
             THEN AfterStart(calls, dance_sequence, action_index, current_time)
             ELSE calls
    IN  /\ clock' = current_time
        /\ ready' = g.ready
        /\ last_wait_subscriber_printout' = g.last_wait_subscriber_printout
        /\ start_time' = g.start_time
        /\ IF g.returns
           THEN /\ action_index' = g.action_index
                /\ calls' = h
                /\ tick' = [NoTick EXCEPT !.kind = "wait",
                                          !.vel_count = Some(vel_count),
                                          !.lights_count = Some(lights_count),
                                          !.log = g.log]
                /\ UNCHANGED << last_twist, last_lightring, prev_published,
                                finished_folded >>
           ELSE LET run == Run(dance_sequence, g.start_time, g.action_index,
                               last_twist, last_lightring, finished_folded,
                               g.log, current_time)
                    out == Publish(run.vel_published, run.lights_published, failing)
                IN  /\ action_index' = run.result.action_index
                    /\ calls' = AfterGet(h, g.action_index, current_time, run.result)
                    /\ last_twist' = run.last_twist
                    /\ last_lightring' = run.last_lightring
                    /\ finished_folded' = run.finished
                    /\ tick' = [kind |-> IF g.started THEN "start" ELSE "run",
                                vel_count |-> IF ready THEN None ELSE Some(vel_count),
                                lights_count |-> IF ready THEN None ELSE Some(lights_count),
                                vel_published |-> out.vel_published,
                                lights_published |-> out.lights_published,
                                log |-> run.log,
                                attempted |-> out.attempted,
                                failed |-> out.failed,
                                raised |-> out.raised]
                    /\ prev_published' =
                          IF tick.kind \in {"start", "run"}
                          THEN Some([twist |-> tick.vel_published,
                                     lightring |-> tick.lights_published])
                          ELSE None
        /\ UNCHANGED dance_sequence

\* timer_callback when both publish calls go through
TimerCallback(current_time, vel_count, lights_count) ==
    TimerCallbackPublishing(current_time, vel_count, lights_count, "none")

ClockReadings == { t \in 0..MaxTime : clock <= t /\ t <= clock + MaxStep }

SubscriptionCounts == 0 .. MaxSubs

\* a tick while waiting for subscribers: the counts are inputs
WaitingTimerCallback ==
    /\ ~ready
    /\ \E current_time \in ClockReadings :
       \E vel_count \in SubscriptionCounts, lights_count \in SubscriptionCounts :
          TimerCallback(current_time, vel_count, lights_count)

\* a tick once ready: the counts are not read
ReadyTimerCallback ==
    /\ ready
    /\ \E current_time \in ClockReadings : TimerCallback(current_time, 0, 0)

Next ==
    \/ WaitingTimerCallback
    \/ ReadyTimerCallback

Spec == Init /\ [][Next]_vars

\* ------------------------- the node when a publish call can raise
PublishFailures == { "vel", "lights" }

\* a tick that reaches the publish calls, one of which raises
FailingTimerCallback ==
    \E current_time \in ClockReadings, failing \in PublishFailures :
       \E vel_count \in SubscriptionCounts, lights_count \in SubscriptionCounts :
          /\ IF ready THEN vel_count = 0 /\ lights_count = 0
                      ELSE SubscribersConnected(vel_count, lights_count)
          /\ TimerCallbackPublishing(current_time, vel_count, lights_count, failing)

\* the timer keeps firing whatever a callback did
NextPub ==
    \/ WaitingTimerCallback
    \/ ReadyTimerCallback
    \/ FailingTimerCallback

SpecPub == Init /\ [][NextPub]_vars

\* ===================================================== properties
\* helpers for stating them
Offset(i) == dance_sequence[i][1]
Action(i) == dance_sequence[i][2]
LastWasGet == calls.last.op = "get_next_actions" /\ calls.last.outcome = "ok"
Elapsed == calls.last.time - ValueOf(start_time)

\* the entries (1-based) at or after cursor `index` whose offset is <= elapsed
DueFrom(index, elapsed) ==
    { i \in (index + 1)..Len(dance_sequence) : Offset(i) * UnitsPerSecond <= elapsed }

\* the call returned exactly the entries first+1 .. first+n, in that order
ReturnedRun(call, first, n) ==
    /\ Len(call.taken) = n
    /\ Len(call.actions) = n
    /\ \A j \in 1..n : call.taken[j] = first + j - 1 /\ call.actions[j] = Action(first + j)

\* C1: within one performance, whatever times get_next_actions is called
\* with (repeated, going backward), no script entry is returned by more than
\* one call and a call never leaves the cursor lower than it found it.
C1_ExactlyOnce ==
    /\ \A i \in DOMAIN calls.returned_count : calls.returned_count[i] <= 1
    /\ LastWasGet => action_index >= calls.last.index_before

\* a call made with an earlier time than the call before it, after entries
\* were consumed and with entries still to come
C1_Witness ==
    /\ LastWasGet /\ calls.prev.op = "get_next_actions"
    /\ calls.last.time < calls.prev.time
    /\ calls.prev.returned > 0
    /\ action_index < Len(dance_sequence)

\* C2: for a script with non-decreasing offsets, get_next_actions(now)
\* returns exactly the entries at index >= cursor whose offset <= now -
\* start_time, in script order, and leaves the cursor just past the last of
\* them; when none is due it returns nothing and keeps the cursor.
C2_ReturnsDue ==
    (LastWasGet /\ NonDecreasing(dance_sequence)) =>
        LET first == calls.last.index_before
            due   == DueFrom(first, Elapsed)
        IN  /\ ReturnedRun(calls.last, first, Cardinality(due))
            /\ \A j \in 1..Len(calls.last.taken) : calls.last.taken[j] + 1 \in due
            /\ action_index = first + Cardinality(due)
            /\ due = {} => calls.last.actions = << >> /\ action_index = first

\* a call that found the cursor past the first entry and returned an entry
C2_Witness ==
    /\ LastWasGet /\ NonDecreasing(dance_sequence)
    /\ calls.last.index_before > 0
    /\ calls.last.actions # << >>

\* C3: for a script with non-decreasing offsets queried at strictly
\* increasing times from start_time on, what the calls returned so far is a
\* prefix of the script, and once a queried time has reached the last offset
\* every entry has been returned exactly once.
C3_PrefixAndComplete ==
    (start_time # None /\ NonDecreasing(dance_sequence) /\ calls.increasing) =>
        LET n == Len(calls.emitted)
        IN  /\ n <= Len(dance_sequence)
            /\ \A i \in 1..n : calls.emitted[i] = Action(i)
            /\ \A i \in 1..Len(dance_sequence) :
                  calls.returned_count[i] = IF i <= n THEN 1 ELSE 0
            /\ (/\ LastWasGet /\ Len(dance_sequence) > 0
                /\ Elapsed >= Offset(Len(dance_sequence)) * UnitsPerSecond)
               => n = Len(dance_sequence)

\* two queries at increasing times, the second one completing a script whose
\* entries carry different offsets
C3_Witness ==
    /\ LastWasGet /\ calls.prev.op = "get_next_actions" /\ calls.increasing
    /\ Len(dance_sequence) > 1 /\ NonDecreasing(dance_sequence)
    /\ Offset(1) < Offset(Len(dance_sequence))
    /\ calls.prev.returned > 0 /\ calls.last.actions # << >>
    /\ Len(calls.emitted) = Len(dance_sequence)

\* C4: get_next_actions called twice in a row with the same time: the second
\* call returns nothing and leaves the cursor where the first call left it,
\* and (non-decreasing offsets) the first call left nothing due behind.
C4_Idempotent ==
    (/\ LastWasGet /\ calls.prev.op = "get_next_actions"
     /\ calls.last.time = calls.prev.time) =>
        /\ calls.last.actions = << >>
        /\ action_index = calls.last.index_before
        /\ NonDecreasing(dance_sequence) => DueFrom(action_index, Elapsed) = {}

\* the same time twice, the first call having returned something
C4_Witness ==
    /\ LastWasGet /\ calls.prev.op = "get_next_actions"
    /\ calls.last.time = calls.prev.time
    /\ calls.prev.returned > 0

\* the largest member of a non-empty set of integers
SetMax(S) == CHOOSE x \in S : \A y \in S : y <= x

\* how many leading entries of the script have an offset <= 0
LeadingDue ==
    SetMax({ k \in 0..Len(dance_sequence) : \A i \in 1..k : Offset(i) <= 0 })

\* the last of the first n entries whose kind is in kinds, 0 when there is none
LastOfKind(n, kinds) ==
    SetMax({0} \cup { i \in 1..n : Action(i).kind \in kinds })

\* the light command with its timestamp cleared
Unstamped(lightring) == [lightring EXCEPT !.stamp = 0]

LastTickReady == tick.kind \in {"start", "run"}

\* C5: get_next_actions(t0) right after start_dance(t0) returns the leading
\* entries whose offset is <= 0 (with offsets >= 0: those whose offset is 0)
\* and no entry with a positive offset; and the tick of the node that passes
\* the gate makes exactly these two calls and publishes the result of folding
\* those entries into the neutral latches.
C5_ZeroOffsetFires ==
    /\ (/\ LastWasGet /\ calls.prev.op = "start_dance"
        /\ calls.last.time = calls.prev.time) =>
          /\ ReturnedRun(calls.last, 0, LeadingDue)
          /\ \A j \in 1..Len(calls.last.taken) : Offset(calls.last.taken[j] + 1) <= 0
          /\ \A i \in 1..Len(dance_sequence) :
                (\A k \in 1..i : Offset(k) = 0) => calls.returned_count[i] = 1
    /\ tick.kind = "start" =>
          /\ LastWasGet /\ calls.prev.op = "start_dance"
          /\ calls.last.time = calls.prev.time /\ calls.last.time = clock
          /\ LET v == LastOfKind(LeadingDue, {"Move", "FinishedDance"})
                 l == LastOfKind(LeadingDue, {"Lights", "FinishedDance"})
             IN  /\ tick.vel_published =
                      << IF v > 0 /\ Action(v).kind = "Move"
                         THEN [linear_x |-> Action(v).x, angular_z |-> Action(v).theta]
                         ELSE [linear_x |-> 0, angular_z |-> 0] >>
                 /\ Len(tick.lights_published) = 1
                 /\ tick.lights_published[1].stamp = clock
                 /\ IF l > 0 /\ Action(l).kind = "Lights"
                    THEN /\ tick.lights_published[1].override_system
                         /\ tick.lights_published[1].leds = Action(l).led_colors
                    ELSE ~tick.lights_published[1].override_system

\* the gate is passed with a Move at offset 0 and a later entry not yet due
C5_Witness ==
    /\ tick.kind = "start"
    /\ LeadingDue >= 1 /\ LeadingDue < Len(dance_sequence)
    /\ Action(1).kind = "Move"
    /\ tick.vel_published # << Twist >>

\* C6: a tick that ends with ready still false publishes nothing on either
\* channel and changes neither latch nor the cursor; so nothing is published
\* before the subscribers were seen.
C6_NothingWhileWaiting ==
    [][ ~ready' =>
          /\ tick'.vel_published = << >> /\ tick'.lights_published = << >>
          /\ last_twist' = last_twist /\ last_lightring' = last_lightring
          /\ action_index' = action_index /\ start_time' = start_time ]_vars

\* a waiting tick that neither started the dance nor printed
C6_Witness ==
    /\ ~ready /\ tick.kind = "wait" /\ tick.log = << >>
    /\ ValueOf(tick.lights_count) > 0

\* C7: on a ready tick at which get_next_actions returned nothing, the
\* velocity and the light command published equal the ones published on the
\* ready tick before it, the light command's timestamp aside.
C7_LatchPersists ==
    (tick.kind = "run" /\ calls.last.actions = << >>) =>
        /\ prev_published # None
        /\ tick.vel_published = ValueOf(prev_published).twist
        /\ Len(tick.vel_published) = 1
        /\ Len(tick.lights_published) = 1
        /\ Len(ValueOf(prev_published).lightring) = 1
        /\ Unstamped(tick.lights_published[1])
             = Unstamped(ValueOf(prev_published).lightring[1])

\* an idle tick, later than the tick before it, republishing a Move and a Lights
C7_Witness ==
    /\ tick.kind = "run" /\ calls.last.actions = << >>
    /\ tick.vel_published # << Twist >>
    /\ tick.lights_published[1].override_system
    /\ tick.lights_published[1].stamp # ValueOf(prev_published).lightring[1].stamp

\* C8: from the tick that folds a FinishedDance on, as long as no Move or
\* Lights is folded after it, every tick publishes one velocity command with
\* zero linear and angular speed and one light command with override_system
\* false.
C8_FinishedResets ==
    finished_folded =>
        /\ LastTickReady
        /\ tick.vel_published = << [linear_x |-> 0, angular_z |-> 0] >>
        /\ Len(tick.lights_published) = 1
        /\ ~tick.lights_published[1].override_system

\* an idle tick after a FinishedDance that followed a Move and a Lights
C8_Witness ==
    /\ finished_folded /\ tick.kind = "run" /\ calls.last.actions = << >>
    /\ \E i \in 1..Len(calls.emitted) : calls.emitted[i].kind = "Lights"
    /\ calls.emitted[Len(calls.emitted)].kind = "FinishedDance"

\* C9: every tick at which the node is ready, the gate-passing tick included,
\* publishes exactly one velocity command and one light command, with or
\* without an action, and they equal last_twist and last_lightring as the
\* tick leaves them.
C9_AlwaysRepublishes ==
    /\ ready => LastTickReady
    /\ LastTickReady =>
          /\ ready
          /\ tick.vel_published = << last_twist >>
          /\ tick.lights_published = << last_lightring >>

\* the gate is passed at a time when no action is due
C9_Witness ==
    /\ tick.kind = "start" /\ calls.last.actions = << >>
    /\ Len(dance_sequence) > 0

\* C10: a waiting diagnostic is printed more than 5.0 seconds of clock time
\* after the one before it, and last_wait_subscriber_printout changes only on
\* a tick that prints it (to that tick's time).
C10_WaitingDebounced ==
    [][ /\ ("waiting" \in { tick'.log[i] : i \in 1..Len(tick'.log) }
            /\ last_wait_subscriber_printout # None)
           => clock' - ValueOf(last_wait_subscriber_printout)
                > WaitPrintoutSeconds * UnitsPerSecond
        /\ last_wait_subscriber_printout' # last_wait_subscriber_printout
           => /\ tick'.log = << "waiting" >>
              /\ last_wait_subscriber_printout' = Some(clock')
              /\ ~ready' ]_vars

\* a second waiting diagnostic has been printed
C10_Witness ==
    /\ ~ready /\ tick.log = << "waiting" >>
    /\ ValueOf(last_wait_subscriber_printout) > WaitPrintoutSeconds * UnitsPerSecond

\* C11: start_dance(now) may be called in any state and any number of times;
\* it leaves start_time = now and the cursor at 0 and does not touch the
\* script, so in the performance it begins every entry is returned again, and
\* once: a query whose elapsed time reaches every offset leaves every entry
\* returned exactly once, however far the performance before had advanced.
C11_Restart ==
    [][ /\ dance_sequence' = dance_sequence
        /\ calls'.last.op = "start_dance" =>
              /\ start_time' = Some(calls'.last.time)
              /\ action_index' = 0
        /\ (/\ calls'.last.op = "get_next_actions" /\ calls'.last.outcome = "ok"
            /\ \A i \in 1..Len(dance_sequence) :
                  calls'.last.time - ValueOf(start_time') >= Offset(i) * UnitsPerSecond)
           => /\ action_index' = Len(dance_sequence)
              /\ \A i \in 1..Len(dance_sequence) : calls'.returned_count[i] = 1 ]_vars

\* a second performance, begun when the cursor had advanced, has returned
\* every entry of a two-entry script again
C11_Witness ==
    /\ calls.starts >= 2 /\ calls.rewound /\ LastWasGet
    /\ Len(dance_sequence) = 2
    /\ \A i \in 1..Len(dance_sequence) : calls.returned_count[i] = 1

\* C12: get_next_actions on a choreographer on which start_dance was never
\* called fails with an error (here the AttributeError raised on reading
\* start_time) and returns no action, and the failed call leaves the cursor
\* and the script as they were.
C12_PrecededStart ==
    [][ (calls'.last.op = "get_next_actions" /\ calls'.starts = 0) =>
          /\ calls'.last.outcome = "AttributeError"
          /\ calls'.last.actions = << >>
          /\ calls'.emitted = << >>
          /\ action_index' = action_index
          /\ start_time' = None
          /\ dance_sequence' = dance_sequence ]_vars

\* the call failed on a script whose first entry would have been due
C12_Witness ==
    /\ calls.last.op = "get_next_actions" /\ calls.starts = 0
    /\ calls.last.outcome = "AttributeError"
    /\ Len(dance_sequence) > 0 /\ Offset(1) <= 0
    /\ calls.last.time > 0

\* C13: a get_next_actions whose time is earlier than the time of the call
\* before it in the same performance (the start_dance that began it, or an
\* earlier get_next_actions) ends with a ClockRegression outcome, which an
\* ordinary call that found nothing due does not.
C13_ClockRegression ==
    ( /\ calls.last.op = "get_next_actions" /\ calls.starts > 0
      /\ calls.prev.op \in {"start_dance", "get_next_actions"}
      /\ calls.last.time < calls.prev.time )
    => calls.last.outcome = "ClockRegression"

\* the query time went backward after entries had been returned, and the
\* call ended like one that found nothing due
C13_Witness ==
    /\ LastWasGet /\ calls.prev.op = "get_next_actions"
    /\ calls.last.time < calls.prev.time
    /\ calls.prev.returned > 0
    /\ calls.last.actions = << >>

\* the script has offsets >= 0 that never decrease, and every Lights action
\* carries one colour per LED
WellFormedScript ==
    /\ NonDecreasing(dance_sequence)
    /\ \A i \in 1..Len(dance_sequence) :
          /\ Offset(i) >= 0
          /\ Action(i).kind = "Lights" => Len(Action(i).led_colors) = NumLeds

\* C14: a script with a negative or decreasing offset, or a Lights action
\* without exactly six colours, is refused by the constructor, so no call is
\* ever served from a choreographer that holds such a script.
C14_InvalidScript ==
    calls.last.op # "none" => WellFormedScript

\* a script with decreasing offsets was constructed, started and queried, and
\* the query returned its later entry and left its earlier entry behind
C14_Witness ==
    /\ LastWasGet /\ ~NonDecreasing(dance_sequence)
    /\ Len(dance_sequence) = 2
    /\ calls.returned_count[1] = 0 /\ action_index = 0
    /\ Elapsed >= Offset(2) * UnitsPerSecond

\* C15: a tick on which a publish call fails deals with the failure itself:
\* no exception leaves the callback, both publish calls are still made, the
\* latches keep what the tick folded, and the tick after it publishes both
\* latched commands again.
C15_PublishFailureNonFatal ==
    /\ tick.failed # "none" =>
          /\ ~tick.raised
          /\ tick.attempted = << "vel", "lights" >>
    /\ (LastTickReady /\ tick.failed = "none") =>
          /\ tick.vel_published = << last_twist >>
          /\ tick.lights_published = << last_lightring >>

\* the velocity publish failed on a tick that had folded a Move: the latch
\* holds the Move, the light publish was not reached and the exception left
\* the callback
C15_Witness ==
    /\ tick.failed = "vel" /\ tick.raised
    /\ tick.attempted = << "vel" >>
    /\ tick.lights_published = << >>
    /\ "move" \in { tick.log[i] : i \in 1..Len(tick.log) }
    /\ last_twist # Twist

\* how many times event e stands in a tick's log
Occurrences(log, e) == Cardinality({ i \in 1..Len(log) : log[i] = e })

\* C16: ready never goes from true back to false, whatever the subscribers
\* do afterwards; start_dance is called on the tick that turns ready true and
\* on no other, so it has been called once when ready and never before;
\* on that tick it comes before the tick's get_next_actions, and no
\* get_next_actions is made while not ready; and the start event is logged
\* once, on that tick only.
C16_LatchLoop ==
    [][ /\ ready => ready'
        /\ calls'.starts = (IF ready' THEN 1 ELSE 0)
        /\ (calls'.starts # calls.starts) <=> (~ready /\ ready')
        /\ Occurrences(tick'.log, "start") = (IF ~ready /\ ready' THEN 1 ELSE 0)
        /\ (~ready /\ ready') =>
              /\ tick'.kind = "start"
              /\ calls'.prev.op = "start_dance"
              /\ calls'.last.op = "get_next_actions"
              /\ calls'.last.outcome = "ok"
        /\ ~ready' => calls'.last.op = "none"
        /\ ready' => calls'.last.op = "get_next_actions" /\ calls'.last.outcome = "ok"
      ]_vars

\* well after the start tick the node is still ready and has made further
\* queries in the one performance, which has run through a two-entry script
C16_Witness ==
    /\ ready /\ tick.kind = "run" /\ calls.starts = 1
    /\ calls.prev.op = "get_next_actions"
    /\ Len(dance_sequence) = 2 /\ action_index = 2
    /\ clock > ValueOf(start_time) + 1

\* C17: the cursor always lies in 0..len(dance_sequence); it changes only by
\* growing in a get_next_actions or by going back to 0 in a start_dance; and
\* when the script's offsets never decrease and the times of the performance
\* never went down, after each get_next_actions every entry before the cursor
\* has an offset <= the elapsed time and every entry from the cursor on has
\* an offset > the elapsed time.
C17_CursorInvariant ==
    [][ /\ 0 <= action_index /\ action_index <= Len(dance_sequence)
        /\ 0 <= action_index' /\ action_index' <= Len(dance_sequence')
        /\ action_index' # action_index =>
              \/ /\ calls'.last.op = "get_next_actions"
                 /\ action_index' > action_index
              \/ /\ calls'.last.op = "start_dance"
                 /\ action_index' = 0
        /\ ( /\ calls'.last.op = "get_next_actions" /\ calls'.last.outcome = "ok"
             /\ NonDecreasing(dance_sequence) /\ calls'.nondecreasing )
           => \A i \in 1..Len(dance_sequence) :
                 IF i <= action_index'
                 THEN Offset(i) * UnitsPerSecond
                         <= calls'.last.time - ValueOf(start_time')
                 ELSE Offset(i) * UnitsPerSecond
                         > calls'.last.time - ValueOf(start_time')
      ]_vars

\* a performance begun after time zero, queried with times that never went
\* down, stands with the cursor strictly inside a script of non-decreasing
\* offsets
C17_Witness ==
    /\ LastWasGet /\ NonDecreasing(dance_sequence) /\ calls.nondecreasing
    /\ ValueOf(start_time) > 0
    /\ 0 < action_index /\ action_index < Len(dance_sequence)
    /\ Offset(action_index) * UnitsPerSecond <= Elapsed
    /\ Offset(action_index + 1) * UnitsPerSecond > Elapsed

\* the kinds of the actions in a list
Kinds(actions) == { actions[i].kind : i \in 1..Len(actions) }

\* both latches hold what the constructor put in them (the stamp aside)
LatchesNeutral(twist, lightring) ==
    twist = Twist /\ Unstamped(lightring) = LightringLeds

\* C18: a tick that folds no Move and no FinishedDance leaves the velocity
\* latch as it was, and one that folds no Lights and no FinishedDance leaves
\* the light latch as it was (its timestamp aside, which every ready tick
\* rewrites after the fold); folding Moves alone sets the velocity latch to
\* the Move's speeds, folding Lights alone sets the light latch to the action's
\* colours with override_system true, folding FinishedDance alone puts both
\* latches back to neutral; and both latches are neutral for as long as no
\* action has been folded.
C18_FoldFrame ==
    [][ LET folded == IF tick'.kind \in {"start", "run"} THEN calls'.last.actions
                                                        ELSE << >>
            kinds  == Kinds(folded)
            final  == folded[Len(folded)]
        IN  /\ kinds \cap {"Move", "FinishedDance"} = {} => last_twist' = last_twist
            /\ kinds \cap {"Lights", "FinishedDance"} = {} =>
                  Unstamped(last_lightring') = Unstamped(last_lightring)
            /\ kinds = {"Move"} =>
                  last_twist' = [linear_x |-> final.x, angular_z |-> final.theta]
            /\ kinds = {"Lights"} =>
                  Unstamped(last_lightring') =
                     [stamp |-> 0, override_system |-> TRUE, leds |-> final.led_colors]
            /\ kinds = {"FinishedDance"} => LatchesNeutral(last_twist', last_lightring')
            /\ calls.emitted = << >> => LatchesNeutral(last_twist, last_lightring)
            /\ calls'.emitted = << >> => LatchesNeutral(last_twist', last_lightring')
      ]_vars

\* a tick folded a Move alone while the light latch held the colours of an
\* earlier Lights: the velocity latch took the Move, the light latch kept them
C18_Witness ==
    /\ tick.kind = "run" /\ Kinds(calls.last.actions) = {"Move"}
    /\ last_twist = [linear_x |-> Move(1, 90).x, angular_z |-> Move(1, 90).theta]
    /\ last_lightring.override_system /\ last_lightring.leds = AllRed

\* C19: a tick of a node that is not ready makes it ready exactly when the
\* count of cmd_vel subscribers it reads is above 0; the count of
\* cmd_lightring subscribers, 0 included, makes no difference either way.
C19_ReadinessAsymmetry ==
    [][ ~ready =>
          /\ tick'.vel_count # None /\ tick'.lights_count # None
          /\ ready' <=> ValueOf(tick'.vel_count) > 0
          /\ tick'.kind = (IF ValueOf(tick'.vel_count) > 0 THEN "start" ELSE "wait")
      ]_vars

\* the node became ready on a tick that saw one cmd_vel subscriber and no
\* cmd_lightring subscriber, after an earlier tick had waited
C19_Witness ==
    /\ ready /\ tick.kind = "start"
    /\ tick.vel_count = Some(1) /\ tick.lights_count = Some(0)
    /\ last_wait_subscriber_printout # None

\* the last of the entries lo..hi whose kind is in kinds, 0 when there is none
LastInRange(lo, hi, kinds) ==
    SetMax({0} \cup { i \in lo..hi : Action(i).kind \in kinds })

\* C20: a ready tick to which get_next_actions returns two or more actions
\* gets them in script order and publishes one velocity command and one light
\* command and no more: the velocity of the last Move or FinishedDance among
\* them (the latch as it stood when there is none) and the lights of the last
\* Lights or FinishedDance among them (likewise), stamped with the tick's time.
C20_Coalescing ==
    [][ (tick'.kind \in {"start", "run"} /\ Len(calls'.last.actions) >= 2) =>
          LET first == calls'.last.index_before
              n     == Len(calls'.last.actions)
              mv    == LastInRange(first + 1, first + n, {"Move", "FinishedDance"})
              lt    == LastInRange(first + 1, first + n, {"Lights", "FinishedDance"})
          IN  /\ ReturnedRun(calls'.last, first, n)
              /\ Len(tick'.vel_published) = 1
              /\ Len(tick'.lights_published) = 1
              /\ tick'.vel_published[1] =
                    IF mv = 0 THEN last_twist
                    ELSE IF Action(mv).kind = "Move"
                    THEN [linear_x |-> Action(mv).x, angular_z |-> Action(mv).theta]
                    ELSE Twist
              /\ Unstamped(tick'.lights_published[1]) =
                    IF lt = 0 THEN Unstamped(last_lightring)
                    ELSE IF Action(lt).kind = "Lights"
                    THEN [stamp |-> 0, override_system |-> TRUE,
                          leds |-> Action(lt).led_colors]
                    ELSE LightringLeds
              /\ tick'.lights_published[1].stamp = clock'
      ]_vars

\* FinishedDance and then a Move came due on one tick: the Move's velocity
\* was published, with the lights neutral
C20_Witness ==
    /\ LastTickReady
    /\ calls.last.actions = << FinishedDance, Move(1, 90) >>
    /\ tick.vel_published =
          << [linear_x |-> Move(1, 90).x, angular_z |-> Move(1, 90).theta] >>
    /\ Len(tick.lights_published) = 1
    /\ ~tick.lights_published[1].override_system

====
